---------------------------- MODULE Spec2Model ----------------------------
(***************************************************************************)
(* A model of the two tick schedulers of the repository:                   *)
(*   Scheduler            (include/Scheduler.h)                            *)
(*   TimedEventScheduler  (include/TimedEventScheduler.h)                  *)
(* One scheduler object is driven per behaviour (sut).  update is a loop   *)
(* that calls caller-supplied callbacks; a callback may call schedule and  *)
(* cancel on the scheduler that is running it, may destroy an entity, and  *)
(* may throw.  The loop is therefore modelled step by step: one step per   *)
(* loop iteration up to the call of a callback, the callback's own calls,  *)
(* and the rest of the iteration when the callback returns.  The helpers   *)
(* of include/SchedulerUtils.h are calls made by a client of a Scheduler.  *)
(***************************************************************************)
EXTENDS Integers, Sequences, FiniteSets, Bags, TLC

\* ------------------------------------------------------------- bounds
MaxIds == 3          \* schedule calls made over one behaviour
MaxTick == 2         \* ticks and clock values are 1..MaxTick
MaxPriority == 1     \* priorities are 0..MaxPriority
NumEntities == 2     \* entity handles are 1..NumEntities
MaxCbOps == 1        \* scheduler/registry calls one callback makes
IdBits == 3          \* width of the id counter where MaxIds calls stay below its wrap
WrapBits == 1        \* width of the id counter where MaxIds calls reach its wrap

Ids == 1..MaxIds
IdValues == 0..MaxIds
CancelArgs == IdValues
Ticks == 1..MaxTick
Clock == 1..MaxTick
Priorities == 0..MaxPriority
Entities == 1..NumEntities

VARIABLES
    sut,            \* which class this behaviour instantiates
    idModulus,      \* 2^w for the w-bit id counter of this behaviour
    pc,             \* "idle", or where update stands: "loop", "action", "onComplete", "execute"
    current_tick,   \* update's argument while it runs
    action,         \* Scheduler::update's local copy of the popped entry
    event,          \* TimedEventScheduler::update's local pointer (an object index)
    budget,         \* calls the running callback may still make
    \* Scheduler
    queue, activeActions, nextActionId,
    registry,       \* the valid entity handles
    health,         \* the Health component of each entity
    dispatcher,     \* ActionCompletedEvents enqueued, per action id
    \* TimedEventScheduler
    events,         \* the TimedEvent objects: index = object identity
    eventQueue, activeEvents, nextEventId,
    \* history
    returned,       \* the ids returned by schedule, in call order
    runs,           \* id -> times the action / execute body was entered
    onCompleteRuns, \* id -> times onComplete was entered
    cancelResult,   \* what cancel returned, when the last call made was a cancel
    cancelTrue,     \* id -> times cancel(id) returned true
    cancelEarly,    \* ids for which cancel was called before their body started
    cancelInCallback, \* ids a callback cancelled while their entry was still queued
    failed,         \* ids whose action, onComplete or execute threw
    utilCall,       \* the SchedulerUtils call made, with what it returned
    cleared,        \* ids whose body had not started when clear() was called
    sinceClear,     \* clear() was called and nothing was scheduled since
    dropped,        \* ids dequeued active while their entity was not valid
    log             \* what the update call in progress dequeued, in order

ctl == <<sut, idModulus, pc, current_tick, action, event, budget>>
schedVars == <<queue, activeActions, nextActionId>>
worldVars == <<registry, dispatcher, health>>
timedVars == <<events, eventQueue, activeEvents, nextEventId>>
cancelHist == <<cancelTrue, cancelEarly>>
callHist == <<cancelInCallback, failed, utilCall>>
runHist == <<runs, onCompleteRuns, dropped, log>>
vars == <<ctl, schedVars, worldVars, timedVars, cancelResult, cancelHist, callHist,
          returned, runHist, cleared, sinceClear>>

\* struct Health as the client emplaces it: int current = 100
HealthCurrent == 100
Health == [has |-> TRUE, current |-> HealthCurrent]
NoCall == [util |-> "none"]

NoAction == [id |-> 0, tick |-> 0, entity |-> 0, onComplete |-> FALSE]
NoEvent == 0

InCallback == pc \in {"action", "onComplete", "execute"}
\* schedule, cancel and registry calls come from the client between updates,
\* or from the callback that update is running
CallSite == pc = "idle" \/ (InCallback /\ budget > 0)
Spend == budget' = IF pc = "idle" THEN budget ELSE budget - 1

Bump(f, k) == [f EXCEPT ![k] = @ + 1]
\* a log entry: what was done with a dequeued entry ("skip", "drop", "run"),
\* the id, tick and priority it carried, and the id counter at that moment
Dequeued(kind, id, tick, priority, seen) ==
    [kind |-> kind, id |-> id, tick |-> tick, priority |-> priority, seen |-> seen]
Range(s) == {s[i] : i \in DOMAIN s}

\* ------------------------------------------------------------ Scheduler

\* operator< with the comparison the other way round: a max-heap on tick
Less_MaxHeap(a, b) == a.tick < b.tick

\* ScheduledAction::operator<
Less(a, b) == a.tick > b.tick

\* a queue that hands out any of its entries
IsTop_Any(a) == BagIn(a, queue)

\* std::priority_queue::top(): a greatest entry under operator<; which of
\* several equal ones is not specified
IsTop(a) == /\ BagIn(a, queue)
            /\ \A b \in BagToSet(queue) : ~Less(a, b)

\* nextActionId++ / nextEventId++ on a uint32_t (w = 32): unsigned arithmetic
\* wraps modulo 2^w.  The width is scaled down with the rest of the model.
NextId(n) == (n + 1) % idModulus

schedule(tick, entity, onComplete) ==
    /\ sut = "Scheduler"
    /\ CallSite
    /\ Len(returned) < MaxIds
    /\ LET actionId == nextActionId
           actionWithId == [id |-> actionId, tick |-> tick, entity |-> entity,
                            onComplete |-> onComplete]
       IN /\ nextActionId' = NextId(nextActionId)
          /\ queue' = queue (+) SetToBag({actionWithId})
          /\ activeActions' = activeActions \cup {actionId}
          /\ returned' = Append(returned, actionId)
    /\ sinceClear' = FALSE
    /\ Spend
    /\ cancelResult' = FALSE
    /\ UNCHANGED <<sut, idModulus, pc, current_tick, action, event, worldVars, timedVars,
                   cancelHist, callHist, runHist, cleared>>

\* cancel that reports success without erasing the id
cancel_NoErase(id) ==
    /\ sut = "Scheduler"
    /\ CallSite
    /\ activeActions' = activeActions
    /\ IF id \in activeActions
          THEN /\ cancelResult' = TRUE
               /\ cancelTrue' = Bump(cancelTrue, id)
          ELSE /\ cancelResult' = FALSE
               /\ cancelTrue' = cancelTrue
    /\ cancelEarly' = IF id \in Range(returned) /\ runs[id] = 0
                         THEN cancelEarly \cup {id} ELSE cancelEarly
    /\ cancelInCallback' =
          IF /\ InCallback /\ id \in activeActions /\ runs[id] = 0
             /\ \E a \in BagToSet(queue) : a.id = id
             THEN cancelInCallback \cup {id} ELSE cancelInCallback
    /\ Spend
    /\ UNCHANGED <<sut, idModulus, pc, current_tick, action, event, queue, nextActionId,
                   worldVars, timedVars, returned, runHist, cleared, sinceClear,
                   failed, utilCall>>

\* cancel that also takes the entry out of the queue
cancel_Eager(id) ==
    /\ queue' = [a \in {b \in BagToSet(queue) : b.id # id} |-> queue[a]]
    /\ sut = "Scheduler"
    /\ CallSite
    /\ IF id \in activeActions
          THEN /\ activeActions' = activeActions \ {id}
               /\ cancelResult' = TRUE
               /\ cancelTrue' = Bump(cancelTrue, id)
          ELSE /\ activeActions' = activeActions
               /\ cancelResult' = FALSE
               /\ cancelTrue' = cancelTrue
    /\ cancelEarly' = IF id \in Range(returned) /\ runs[id] = 0
                         THEN cancelEarly \cup {id} ELSE cancelEarly
    /\ cancelInCallback' =
          IF /\ InCallback /\ id \in activeActions /\ runs[id] = 0
             /\ \E a \in BagToSet(queue) : a.id = id
             THEN cancelInCallback \cup {id} ELSE cancelInCallback
    /\ Spend
    /\ UNCHANGED <<sut, idModulus, pc, current_tick, action, event, nextActionId,
                   worldVars, timedVars, returned, runHist, cleared, sinceClear,
                   failed, utilCall>>

cancel(id) ==
    /\ sut = "Scheduler"
    /\ CallSite
    /\ IF id \in activeActions
          THEN /\ activeActions' = activeActions \ {id}
               /\ cancelResult' = TRUE
               /\ cancelTrue' = Bump(cancelTrue, id)
          ELSE /\ activeActions' = activeActions
               /\ cancelResult' = FALSE
               /\ cancelTrue' = cancelTrue
    /\ cancelEarly' = IF id \in Range(returned) /\ runs[id] = 0
                         THEN cancelEarly \cup {id} ELSE cancelEarly
    /\ cancelInCallback' =
          IF /\ InCallback /\ id \in activeActions /\ runs[id] = 0
             /\ \E a \in BagToSet(queue) : a.id = id
             THEN cancelInCallback \cup {id} ELSE cancelInCallback
    /\ Spend
    /\ UNCHANGED <<sut, idModulus, pc, current_tick, action, event, queue, nextActionId,
                   worldVars, timedVars, returned, runHist, cleared, sinceClear,
                   failed, utilCall>>

\* clear that swaps the queue and forgets activeActions.clear()
clear_KeepsActive ==
    /\ sut = "Scheduler"
    /\ pc = "idle"
    /\ queue' = EmptyBag
    /\ activeActions' = activeActions
    /\ cleared' = cleared \cup {i \in Range(returned) : runs[i] = 0}
    /\ sinceClear' = TRUE
    /\ cancelResult' = FALSE
    /\ UNCHANGED <<ctl, nextActionId, worldVars, timedVars, cancelHist, callHist,
                   returned, runHist>>

clear ==
    /\ sut = "Scheduler"
    /\ pc = "idle"
    /\ queue' = EmptyBag
    /\ activeActions' = {}
    /\ cleared' = cleared \cup {i \in Range(returned) : runs[i] = 0}
    /\ sinceClear' = TRUE
    /\ cancelResult' = FALSE
    /\ UNCHANGED <<ctl, nextActionId, worldVars, timedVars, cancelHist, callHist,
                   returned, runHist>>

\* the call of update: the loop has not tested its condition yet
update(tick) ==
    /\ sut = "Scheduler"
    /\ pc = "idle"
    /\ pc' = "loop"
    /\ current_tick' = tick
    /\ log' = <<>>
    /\ cancelResult' = FALSE
    /\ UNCHANGED <<sut, idModulus, action, event, budget, schedVars, worldVars, timedVars,
                   cancelHist, callHist, returned, runs, onCompleteRuns, dropped, cleared, sinceClear>>

\* a loop condition that does not look at the tick
Due_Always(a) == TRUE

\* queue.top().tick <= current_tick
Due(a) == a.tick <= current_tick

\* the loop condition is false: update returns
updateReturn ==
    /\ sut = "Scheduler"
    /\ pc = "loop"
    /\ ~ \E a \in BagToSet(queue) : IsTop(a) /\ Due(a)
    /\ pc' = "idle"
    /\ current_tick' = 0
    /\ log' = <<>>
    /\ cancelResult' = FALSE
    /\ UNCHANGED <<sut, idModulus, action, event, budget, schedVars, worldVars, timedVars,
                   cancelHist, callHist, returned, runs, onCompleteRuns, dropped, cleared, sinceClear>>

\* an iteration that finds the top entry cancelled and continues without
\* popping it
updateSkip_NoPop ==
    /\ sut = "Scheduler"
    /\ pc = "loop"
    /\ \E a \in BagToSet(queue) :
          /\ IsTop(a) /\ Due(a)
          /\ a.id \notin activeActions
          /\ queue' = queue
          /\ log' = Append(log, Dequeued("skip", a.id, a.tick, 0, nextActionId))
    /\ cancelResult' = FALSE
    /\ UNCHANGED <<ctl, activeActions, nextActionId, worldVars, timedVars,
                   cancelHist, callHist, returned, runs, onCompleteRuns, dropped, cleared,
                   sinceClear>>

\* an iteration that pops a cancelled entry: continue
updateSkip ==
    /\ sut = "Scheduler"
    /\ pc = "loop"
    /\ \E a \in BagToSet(queue) :
          /\ IsTop(a) /\ Due(a)
          /\ a.id \notin activeActions
          /\ queue' = queue (-) SetToBag({a})
          /\ log' = Append(log, Dequeued("skip", a.id, a.tick, 0, nextActionId))
    /\ cancelResult' = FALSE
    /\ UNCHANGED <<ctl, activeActions, nextActionId, worldVars, timedVars,
                   cancelHist, callHist, returned, runs, onCompleteRuns, dropped, cleared,
                   sinceClear>>

\* an update that does not ask the registry
Valid_Always(entity) == TRUE

\* registry.valid(action.entity)
Valid(entity) == entity \in registry

\* a drop that leaves the id in the active set
updateDrop_NoErase ==
    /\ sut = "Scheduler"
    /\ pc = "loop"
    /\ \E a \in BagToSet(queue) :
          /\ IsTop(a) /\ Due(a)
          /\ a.id \in activeActions
          /\ ~Valid(a.entity)
          /\ queue' = queue (-) SetToBag({a})
          /\ activeActions' = activeActions
          /\ dropped' = dropped \cup {a.id}
          /\ log' = Append(log, Dequeued("drop", a.id, a.tick, 0, nextActionId))
    /\ cancelResult' = FALSE
    /\ UNCHANGED <<ctl, nextActionId, worldVars, timedVars, cancelHist, callHist,
                   returned, runs, onCompleteRuns, cleared, sinceClear>>

\* an iteration that pops an active entry whose entity is not valid
updateDrop ==
    /\ sut = "Scheduler"
    /\ pc = "loop"
    /\ \E a \in BagToSet(queue) :
          /\ IsTop(a) /\ Due(a)
          /\ a.id \in activeActions
          /\ ~Valid(a.entity)
          /\ queue' = queue (-) SetToBag({a})
          /\ activeActions' = activeActions \ {a.id}
          /\ dropped' = dropped \cup {a.id}
          /\ log' = Append(log, Dequeued("drop", a.id, a.tick, 0, nextActionId))
    /\ cancelResult' = FALSE
    /\ UNCHANGED <<ctl, nextActionId, worldVars, timedVars, cancelHist, callHist,
                   returned, runs, onCompleteRuns, cleared, sinceClear>>

\* an iteration that pops an active entry with a valid entity, up to the
\* call of action.action
updateAction ==
    /\ sut = "Scheduler"
    /\ pc = "loop"
    /\ \E a \in BagToSet(queue) :
          /\ IsTop(a) /\ Due(a)
          /\ a.id \in activeActions
          /\ Valid(a.entity)
          /\ queue' = queue (-) SetToBag({a})
          /\ action' = a
          /\ runs' = Bump(runs, a.id)
          /\ log' = Append(log, Dequeued("run", a.id, a.tick, 0, nextActionId))
          /\ dropped' = IF a.entity \in registry THEN dropped
                                                  ELSE dropped \cup {a.id}
    /\ pc' = "action"
    /\ budget' = MaxCbOps
    /\ cancelResult' = FALSE
    /\ UNCHANGED <<sut, idModulus, current_tick, event, activeActions, nextActionId,
                   worldVars, timedVars, cancelHist, callHist, returned, onCompleteRuns,
                   cleared, sinceClear>>

\* an iteration that goes from action.action to onComplete without the enqueue
actionReturn_NoEnqueue ==
    /\ sut = "Scheduler"
    /\ pc = "action"
    /\ dispatcher' = dispatcher
    /\ IF action.onComplete
          THEN /\ pc' = "onComplete"
               /\ budget' = MaxCbOps
               /\ onCompleteRuns' = Bump(onCompleteRuns, action.id)
               /\ UNCHANGED <<action, activeActions>>
          ELSE /\ pc' = "loop"
               /\ budget' = 0
               /\ action' = NoAction
               /\ activeActions' = activeActions \ {action.id}
               /\ UNCHANGED onCompleteRuns
    /\ cancelResult' = FALSE
    /\ UNCHANGED <<sut, idModulus, current_tick, event, queue, nextActionId, registry, health,
                   timedVars, cancelHist, callHist, returned, runs, dropped, log, cleared, sinceClear>>

\* an iteration that asks the registry again when action.action has returned
actionReturn_Revalidates ==
    /\ sut = "Scheduler"
    /\ pc = "action"
    /\ dispatcher' = IF Valid(action.entity) THEN Bump(dispatcher, action.id)
                                               ELSE dispatcher
    /\ IF action.onComplete /\ Valid(action.entity)
          THEN /\ pc' = "onComplete"
               /\ budget' = MaxCbOps
               /\ onCompleteRuns' = Bump(onCompleteRuns, action.id)
               /\ UNCHANGED <<action, activeActions>>
          ELSE /\ pc' = "loop"
               /\ budget' = 0
               /\ action' = NoAction
               /\ activeActions' = activeActions \ {action.id}
               /\ UNCHANGED onCompleteRuns
    /\ cancelResult' = FALSE
    /\ UNCHANGED <<sut, idModulus, current_tick, event, queue, nextActionId, registry, health,
                   timedVars, cancelHist, callHist, returned, runs, dropped, log, cleared, sinceClear>>

\* action.action returned: enqueue the completion event, then call
\* onComplete if there is one, else finish the iteration
actionReturn ==
    /\ sut = "Scheduler"
    /\ pc = "action"
    /\ dispatcher' = Bump(dispatcher, action.id)
    /\ IF action.onComplete
          THEN /\ pc' = "onComplete"
               /\ budget' = MaxCbOps
               /\ onCompleteRuns' = Bump(onCompleteRuns, action.id)
               /\ UNCHANGED <<action, activeActions>>
          ELSE /\ pc' = "loop"
               /\ budget' = 0
               /\ action' = NoAction
               /\ activeActions' = activeActions \ {action.id}
               /\ UNCHANGED onCompleteRuns
    /\ cancelResult' = FALSE
    /\ UNCHANGED <<sut, idModulus, current_tick, event, queue, nextActionId, registry, health,
                   timedVars, cancelHist, callHist, returned, runs, dropped, log, cleared, sinceClear>>

\* action.onComplete returned: finish the iteration
onCompleteReturn ==
    /\ sut = "Scheduler"
    /\ pc = "onComplete"
    /\ pc' = "loop"
    /\ budget' = 0
    /\ action' = NoAction
    /\ activeActions' = activeActions \ {action.id}
    /\ cancelResult' = FALSE
    /\ UNCHANGED <<sut, idModulus, current_tick, event, queue, nextActionId, worldVars,
                   timedVars, cancelHist, callHist, returned, runHist, cleared, sinceClear>>

\* registry.destroy(entity), by the client or by a callback
destroy(entity) ==
    /\ sut = "Scheduler"
    /\ CallSite
    /\ entity \in registry
    /\ registry' = registry \ {entity}
    /\ Spend
    /\ cancelResult' = FALSE
    /\ UNCHANGED <<sut, idModulus, pc, current_tick, action, event, schedVars, dispatcher, health,
                   timedVars, cancelHist, callHist, returned, runHist, cleared, sinceClear>>

\* the handle becomes valid (again), by the client
create(entity) ==
    /\ sut = "Scheduler"
    /\ pc = "idle"
    /\ entity \notin registry
    /\ registry' = registry \cup {entity}
    /\ cancelResult' = FALSE
    /\ UNCHANGED <<ctl, schedVars, dispatcher, health, timedVars, cancelHist, callHist,
                   returned, runHist, cleared, sinceClear>>

\* -------------------------------------------------- TimedEventScheduler

\* TimedEvent::TimedEvent(tick, name) followed by setPriority: a new object,
\* not yet known to a scheduler
TimedEvent(tick, priority) == [id |-> 0, tick |-> tick, priority |-> priority]

\* the comparator with the priority test the other way round
TimedEventCompare_LowFirst(a, b) ==
    IF a.tick = b.tick THEN a.priority > b.priority
                       ELSE a.tick > b.tick

\* TimedEventCompare::operator(), on two objects
TimedEventCompare(a, b) ==
    IF a.tick = b.tick THEN a.priority < b.priority
                       ELSE a.tick > b.tick

\* eventQueue.top(): a pointer that is greatest under TimedEventCompare
IsTopEvent(o) == /\ BagIn(o, eventQueue)
                 /\ \A p \in BagToSet(eventQueue) :
                       ~TimedEventCompare(events[o], events[p])

\* a loop condition that does not look at the event's tick
DueEvent_Always(o) == TRUE

\* eventQueue.top()->getTick() <= currentTick
DueEvent(o) == events[o].tick <= current_tick

\* scheduleEvent(std::shared_ptr<TimedEvent> event): event points to object o
\* of the object store objs
scheduleEventPtr(o, objs) ==
    /\ sut = "TimedEventScheduler"
    /\ CallSite
    /\ Len(returned) < MaxIds
    /\ LET eventId == nextEventId
       IN /\ nextEventId' = NextId(nextEventId)
          /\ events' = [objs EXCEPT ![o].id = eventId]
          /\ eventQueue' = eventQueue (+) SetToBag({o})
          /\ activeEvents' = activeEvents \cup {eventId}
          /\ returned' = Append(returned, eventId)
    /\ sinceClear' = FALSE
    /\ Spend
    /\ cancelResult' = FALSE
    /\ UNCHANGED <<sut, idModulus, pc, current_tick, action, event, schedVars, worldVars,
                   cancelHist, callHist, runHist, cleared>>

\* scheduleEvent<EventType>(args...): make_shared, then the overload above
scheduleEventNew(tick, priority) ==
    scheduleEventPtr(Len(events) + 1, Append(events, TimedEvent(tick, priority)))

\* scheduleEvent(event) with a pointer the client kept from an earlier call
scheduleEvent(o) ==
    /\ o \in DOMAIN events
    /\ scheduleEventPtr(o, events)

\* a FunctionEvent that sets itself a priority above the default
FunctionEvent_Urgent(tick) ==
    [id |-> 0, tick |-> tick, priority |-> MaxPriority, func |-> TRUE]

\* FunctionEvent::FunctionEvent(tick, func, name): TimedEvent(tick, name), so
\* priority keeps its default 0, and the callable it holds
FunctionEvent(tick) == [id |-> 0, tick |-> tick, priority |-> 0, func |-> TRUE]

\* object o is a FunctionEvent
IsFunction(o) == "func" \in DOMAIN events[o]

\* scheduleFunction(tick, func, name): scheduleEvent<FunctionEvent>; the
\* caller gets the id and no pointer to the object
scheduleFunction(tick) ==
    scheduleEventPtr(Len(events) + 1, Append(events, FunctionEvent(tick)))

\* cancelEvent that reports success without erasing the id
cancelEvent_NoErase(id) ==
    /\ sut = "TimedEventScheduler"
    /\ CallSite
    /\ IF id \in activeEvents
          THEN /\ activeEvents' = activeEvents
               /\ cancelResult' = TRUE
               /\ cancelTrue' = Bump(cancelTrue, id)
          ELSE /\ activeEvents' = activeEvents
               /\ cancelResult' = FALSE
               /\ cancelTrue' = cancelTrue
    /\ cancelEarly' = IF id \in Range(returned) /\ runs[id] = 0
                         THEN cancelEarly \cup {id} ELSE cancelEarly
    /\ cancelInCallback' =
          IF /\ InCallback /\ id \in activeEvents /\ runs[id] = 0
             /\ \E o \in BagToSet(eventQueue) : events[o].id = id
             THEN cancelInCallback \cup {id} ELSE cancelInCallback
    /\ Spend
    /\ UNCHANGED <<sut, idModulus, pc, current_tick, action, event, schedVars, worldVars,
                   events, eventQueue, nextEventId, returned, runHist, cleared, sinceClear,
                   failed, utilCall>>

cancelEvent(id) ==
    /\ sut = "TimedEventScheduler"
    /\ CallSite
    /\ IF id \in activeEvents
          THEN /\ activeEvents' = activeEvents \ {id}
               /\ cancelResult' = TRUE
               /\ cancelTrue' = Bump(cancelTrue, id)
          ELSE /\ activeEvents' = activeEvents
               /\ cancelResult' = FALSE
               /\ cancelTrue' = cancelTrue
    /\ cancelEarly' = IF id \in Range(returned) /\ runs[id] = 0
                         THEN cancelEarly \cup {id} ELSE cancelEarly
    /\ cancelInCallback' =
          IF /\ InCallback /\ id \in activeEvents /\ runs[id] = 0
             /\ \E o \in BagToSet(eventQueue) : events[o].id = id
             THEN cancelInCallback \cup {id} ELSE cancelInCallback
    /\ Spend
    /\ UNCHANGED <<sut, idModulus, pc, current_tick, action, event, schedVars, worldVars,
                   events, eventQueue, nextEventId, returned, runHist, cleared, sinceClear,
                   failed, utilCall>>

clearEvents ==
    /\ sut = "TimedEventScheduler"
    /\ pc = "idle"
    /\ eventQueue' = EmptyBag
    /\ activeEvents' = {}
    /\ cleared' = cleared \cup {i \in Range(returned) : runs[i] = 0}
    /\ sinceClear' = TRUE
    /\ cancelResult' = FALSE
    /\ UNCHANGED <<ctl, schedVars, worldVars, events, nextEventId, cancelHist, callHist,
                   returned, runHist>>

\* the call of update(currentTick)
updateEvents(currentTick) ==
    /\ sut = "TimedEventScheduler"
    /\ pc = "idle"
    /\ pc' = "loop"
    /\ current_tick' = currentTick
    /\ log' = <<>>
    /\ cancelResult' = FALSE
    /\ UNCHANGED <<sut, idModulus, action, event, budget, schedVars, worldVars, timedVars,
                   cancelHist, callHist, returned, runs, onCompleteRuns, dropped, cleared, sinceClear>>

\* the loop condition is false: update returns
eventsReturn ==
    /\ sut = "TimedEventScheduler"
    /\ pc = "loop"
    /\ ~ \E o \in BagToSet(eventQueue) : IsTopEvent(o) /\ DueEvent(o)
    /\ pc' = "idle"
    /\ current_tick' = 0
    /\ log' = <<>>
    /\ cancelResult' = FALSE
    /\ UNCHANGED <<sut, idModulus, action, event, budget, schedVars, worldVars, timedVars,
                   cancelHist, callHist, returned, runs, onCompleteRuns, dropped, cleared, sinceClear>>

\* an iteration that pops an event whose id is not active: continue
eventsSkip ==
    /\ sut = "TimedEventScheduler"
    /\ pc = "loop"
    /\ \E o \in BagToSet(eventQueue) :
          /\ IsTopEvent(o) /\ DueEvent(o)
          /\ events[o].id \notin activeEvents
          /\ eventQueue' = eventQueue (-) SetToBag({o})
          /\ log' = Append(log, Dequeued("skip", events[o].id, events[o].tick,
                                         events[o].priority, nextEventId))
    /\ cancelResult' = FALSE
    /\ UNCHANGED <<ctl, schedVars, worldVars, events, activeEvents, nextEventId,
                   cancelHist, callHist, returned, runs, onCompleteRuns, dropped, cleared,
                   sinceClear>>

\* an iteration that pops an event whose id is active, up to event->execute()
eventsExecute ==
    /\ sut = "TimedEventScheduler"
    /\ pc = "loop"
    /\ \E o \in BagToSet(eventQueue) :
          /\ IsTopEvent(o) /\ DueEvent(o)
          /\ events[o].id \in activeEvents
          /\ eventQueue' = eventQueue (-) SetToBag({o})
          /\ event' = o
          /\ runs' = Bump(runs, events[o].id)
          /\ log' = Append(log, Dequeued("run", events[o].id, events[o].tick,
                                         events[o].priority, nextEventId))
    /\ pc' = "execute"
    /\ budget' = MaxCbOps
    /\ cancelResult' = FALSE
    /\ UNCHANGED <<sut, idModulus, current_tick, action, schedVars, worldVars, events,
                   activeEvents, nextEventId, cancelHist, callHist, returned,
                   onCompleteRuns, dropped, cleared, sinceClear>>

\* execute() returned: activeEvents.erase(event->getId())
executeReturn ==
    /\ sut = "TimedEventScheduler"
    /\ pc = "execute"
    /\ activeEvents' = activeEvents \ {events[event].id}
    /\ pc' = "loop"
    /\ budget' = 0
    /\ event' = NoEvent
    /\ cancelResult' = FALSE
    /\ UNCHANGED <<sut, idModulus, current_tick, action, schedVars, worldVars, events,
                   eventQueue, nextEventId, cancelHist, callHist, returned, runHist,
                   cleared, sinceClear>>

\* the running callback throws: update has no handler, the exception leaves it
throw ==
    /\ InCallback
    /\ pc' = "idle"
    /\ current_tick' = 0
    /\ action' = NoAction
    /\ event' = NoEvent
    /\ budget' = 0
    /\ log' = <<>>
    /\ failed' = failed \cup {log[Len(log)].id}
    /\ cancelResult' = FALSE
    /\ UNCHANGED <<sut, idModulus, schedVars, worldVars, timedVars, cancelHist,
                   cancelInCallback, utilCall, returned,
                   runs, onCompleteRuns, dropped, cleared, sinceClear>>

Constructed(modulus) ==
    /\ sut \in {"Scheduler", "TimedEventScheduler"}
    /\ idModulus = modulus
    /\ pc = "idle"
    /\ current_tick = 0
    /\ action = NoAction
    /\ event = NoEvent
    /\ budget = 0
    /\ queue = EmptyBag
    /\ activeActions = {}
    /\ nextActionId = 1
    /\ registry = Entities
    /\ health = [e \in Entities |-> Health]
    /\ dispatcher = [i \in IdValues |-> 0]
    /\ events = <<>>
    /\ eventQueue = EmptyBag
    /\ activeEvents = {}
    /\ nextEventId = 1
    /\ returned = <<>>
    /\ runs = [i \in IdValues |-> 0]
    /\ onCompleteRuns = [i \in IdValues |-> 0]
    /\ cancelResult = FALSE
    /\ cancelTrue = [i \in IdValues |-> 0]
    /\ cancelEarly = {}
    /\ cancelInCallback = {}
    /\ failed = {}
    /\ utilCall = NoCall
    /\ cleared = {}
    /\ sinceClear = FALSE
    /\ dropped = {}
    /\ log = <<>>

\* the id counter is wide enough for every call of the behaviour
Init == Constructed(2 ^ IdBits)
\* the id counter is narrow enough for the calls of the behaviour to wrap it
WrapInit == Constructed(2 ^ WrapBits)

SchedulerNext ==
    \/ \E t \in Ticks, e \in Entities, oc \in BOOLEAN : schedule(t, e, oc)
    \/ \E i \in CancelArgs : cancel(i)
    \/ clear
    \/ \E t \in Clock : update(t)
    \/ updateReturn
    \/ updateSkip
    \/ updateDrop
    \/ updateAction
    \/ actionReturn
    \/ onCompleteReturn
    \/ \E e \in Entities : destroy(e)
    \/ \E e \in Entities : create(e)

TimedNext ==
    \/ \E t \in Ticks, p \in Priorities : scheduleEventNew(t, p)
    \/ \E o \in Ids : scheduleEvent(o)
    \/ \E i \in CancelArgs : cancelEvent(i)
    \/ clearEvents
    \/ \E t \in Clock : updateEvents(t)
    \/ eventsReturn
    \/ eventsSkip
    \/ eventsExecute
    \/ executeReturn

Next == SchedulerNext \/ TimedNext \/ throw

Spec == Init /\ [][Next]_vars
WrapSpec == WrapInit /\ [][Next]_vars

\* a TimedEventScheduler whose clients schedule FunctionEvents next to events
\* of priorities on both sides of 0
FunctionPriorities == (0 - MaxPriority)..MaxPriority
FunctionInit == Init /\ sut = "TimedEventScheduler"
FunctionNext ==
    \/ \E t \in Ticks, p \in FunctionPriorities : scheduleEventNew(t, p)
    \/ \E t \in Ticks : scheduleFunction(t)
    \/ \E o \in Ids : o \in DOMAIN events /\ ~IsFunction(o) /\ scheduleEvent(o)
    \/ \E i \in CancelArgs : cancelEvent(i)
    \/ clearEvents
    \/ \E t \in Clock : updateEvents(t)
    \/ eventsReturn
    \/ eventsSkip
    \/ eventsExecute
    \/ executeReturn
    \/ throw
FunctionSpec == FunctionInit /\ [][FunctionNext]_vars

\* ------------------------------------------------------- SchedulerUtils
\* The helpers of SchedulerUtils.h, called by the client on a Scheduler.  The
\* entries they schedule carry the callable they were given (work); the
\* helpers pass no onComplete.

MaxDamage == 2       \* damage is 1..MaxDamage
MaxInterval == 1     \* interval is -MaxInterval..MaxInterval
Damages == 1..MaxDamage
Intervals == (0 - MaxInterval)..MaxInterval
Counts == (0 - 1)..MaxIds
UtilClock == (1 - (MaxIds - 1) * MaxInterval)..(MaxTick + (MaxIds - 1) * MaxInterval)
\* the lists of (delay, action) pairs: the k-th action is known by its place k
Chains == UNION {[1..n -> Ticks] : n \in 0..MaxIds}

\* the lambda of scheduleDamageOverTime, the caller's action of
\* scheduleRecurringAction, the k-th action of a chain
DamageWork(damage) == [kind |-> "damage", damage |-> damage]
RecurringWork == [kind |-> "action"]
ChainWork(k) == [kind |-> "chain", index |-> k]

\* the scheduler as a helper sees it, with the vector it is filling
SchedulerState ==
    [queue |-> queue, activeActions |-> activeActions,
     nextActionId |-> nextActionId, actionIds |-> <<>>]

\* ActionID id = scheduler.schedule(tick, entity, work);
\* actionIds.push_back(id);
ScheduledWith(st, tick, entity, work) ==
    LET actionId == st.nextActionId
        actionWithId == [id |-> actionId, tick |-> tick, entity |-> entity,
                         onComplete |-> FALSE, work |-> work]
    IN [queue |-> st.queue (+) SetToBag({actionWithId}),
        activeActions |-> st.activeActions \cup {actionId},
        nextActionId |-> NextId(st.nextActionId),
        actionIds |-> Append(st.actionIds, actionId)]

\* for (int i = 0; i < totalTicks; ++i), tick = startTick + (i * interval)
RECURSIVE DamageLoop(_, _, _, _, _, _, _)
DamageLoop(st, i, target, damage, totalTicks, interval, startTick) ==
    IF i < totalTicks
       THEN DamageLoop(ScheduledWith(st, startTick + (i * interval), target,
                                     DamageWork(damage)),
                       i + 1, target, damage, totalTicks, interval, startTick)
       ELSE st

\* for (int i = 0; i < count; ++i), tick = startTick + (i * interval)
RECURSIVE RecurringLoop(_, _, _, _, _, _)
RecurringLoop(st, i, entity, interval, count, startTick) ==
    IF i < count
       THEN RecurringLoop(ScheduledWith(st, startTick + (i * interval), entity,
                                        RecurringWork),
                          i + 1, entity, interval, count, startTick)
       ELSE st

\* for (const auto &[delay, action] : actions): schedule(delay, entity, action)
RECURSIVE ChainLoop(_, _, _, _)
ChainLoop(st, k, entity, actions) ==
    IF k <= Len(actions)
       THEN ChainLoop(ScheduledWith(st, actions[k], entity, ChainWork(k)),
                      k + 1, entity, actions)
       ELSE st

\* the helper has returned st.actionIds
Returns(st, call) ==
    /\ sut = "Scheduler"
    /\ pc = "idle"
    /\ utilCall = NoCall
    /\ Len(returned) + Len(st.actionIds) <= MaxIds
    /\ queue' = st.queue
    /\ activeActions' = st.activeActions
    /\ nextActionId' = st.nextActionId
    /\ returned' = returned \o st.actionIds
    /\ utilCall' = [call EXCEPT !.actionIds = st.actionIds]
    /\ sinceClear' = FALSE
    /\ cancelResult' = FALSE
    /\ UNCHANGED <<ctl, worldVars, timedVars, cancelHist, cancelInCallback, failed,
                   runHist, cleared>>

scheduleDamageOverTime(target, damage, totalTicks, interval, startTick) ==
    /\ totalTicks <= MaxIds
    /\ Returns(DamageLoop(SchedulerState, 0, target, damage, totalTicks, interval,
                          startTick),
               [util |-> "scheduleDamageOverTime", entity |-> target,
                damage |-> damage, count |-> totalTicks, interval |-> interval,
                startTick |-> startTick, actionIds |-> <<>>])

scheduleRecurringAction(entity, interval, count, startTick) ==
    /\ count <= MaxIds
    /\ Returns(RecurringLoop(SchedulerState, 0, entity, interval, count, startTick),
               [util |-> "scheduleRecurringAction", entity |-> entity,
                damage |-> 0, count |-> count, interval |-> interval,
                startTick |-> startTick, actionIds |-> <<>>])

scheduleActionChain(entity, actions) ==
    /\ Len(actions) <= MaxIds
    /\ Returns(ChainLoop(SchedulerState, 1, entity, actions),
               [util |-> "scheduleActionChain", entity |-> entity,
                actions |-> actions, actionIds |-> <<>>])

\* a lambda that applies the damage twice
damageLambda_Twice ==
    /\ sut = "Scheduler"
    /\ pc = "action"
    /\ action.work.kind = "damage"
    /\ budget = MaxCbOps
    /\ budget' = 0
    /\ health' = IF Valid(action.entity) /\ health[action.entity].has
                    THEN [health EXCEPT ![action.entity].current =
                                           @ - (2 * action.work.damage)]
                    ELSE health
    /\ cancelResult' = FALSE
    /\ UNCHANGED <<sut, idModulus, pc, current_tick, action, event, schedVars,
                   registry, dispatcher, timedVars, cancelHist, callHist, returned,
                   runHist, cleared, sinceClear>>

\* the body of the lambda of scheduleDamageOverTime (no onDamage given)
damageLambda ==
    /\ sut = "Scheduler"
    /\ pc = "action"
    /\ action.work.kind = "damage"
    /\ budget = MaxCbOps
    /\ budget' = 0
    /\ health' = IF Valid(action.entity) /\ health[action.entity].has
                    THEN [health EXCEPT ![action.entity].current =
                                           @ - action.work.damage]
                    ELSE health
    /\ cancelResult' = FALSE
    /\ UNCHANGED <<sut, idModulus, pc, current_tick, action, event, schedVars,
                   registry, dispatcher, timedVars, cancelHist, callHist, returned,
                   runHist, cleared, sinceClear>>

\* registry.remove<Health>(entity), by the client
removeHealth(entity) ==
    /\ sut = "Scheduler"
    /\ pc = "idle"
    /\ health[entity].has
    /\ health' = [health EXCEPT ![entity].has = FALSE]
    /\ cancelResult' = FALSE
    /\ UNCHANGED <<ctl, schedVars, registry, dispatcher, timedVars, cancelHist,
                   callHist, returned, runHist, cleared, sinceClear>>

\* a client that calls one helper and then cancels, advances the clock,
\* destroys entities and removes components
UtilsInit == Init /\ sut = "Scheduler"
UtilsNext ==
    \/ \E e \in Entities, d \in Damages, n \in Counts, i \in Intervals, t \in Ticks :
          scheduleDamageOverTime(e, d, n, i, t)
    \/ \E e \in Entities, i \in Intervals, n \in Counts, t \in Ticks :
          scheduleRecurringAction(e, i, n, t)
    \/ \E e \in Entities, c \in Chains : scheduleActionChain(e, c)
    \/ \E i \in CancelArgs : pc = "idle" /\ cancel(i)
    \/ \E t \in UtilClock : update(t)
    \/ updateReturn
    \/ updateSkip
    \/ updateDrop
    \/ updateAction
    \/ damageLambda
    \/ (pc = "action" /\ (action.work.kind = "damage" => budget = 0)) /\ actionReturn
    \/ \E e \in Entities : pc = "idle" /\ destroy(e)
    \/ \E e \in Entities : removeHealth(e)
UtilsSpec == UtilsInit /\ [][UtilsNext]_vars

\* ---------------------------------------------------------- properties

Issued == Range(returned)
Active == IF sut = "Scheduler" THEN activeActions ELSE activeEvents
QueueEmpty == IF sut = "Scheduler" THEN queue = EmptyBag
                                   ELSE eventQueue = EmptyBag
\* the (id, tick) pairs the queue entries carry
Carried ==
    IF sut = "Scheduler"
       THEN {[id |-> a.id, tick |-> a.tick] : a \in BagToSet(queue)}
       ELSE {[id |-> events[o].id, tick |-> events[o].tick] :
                o \in BagToSet(eventQueue)}
\* the executions of the update call in progress
RunLog == SelectSeq(log, LAMBDA d : d.kind = "run")
\* the action / execute body of id i is on the stack
Running(i) == pc \in {"action", "execute"} /\ log # <<>> /\ log[Len(log)].id = i
\* the body of id i was entered and has been left (it returned or it threw)
WorkRan(i) == i \in Ids /\ runs[i] > 0 /\ ~Running(i)
\* pending: returned by schedule, work not yet run, not cancelled, not
\* cleared (and not discarded by the validity gate)
Pending(i) ==
    /\ i \in Issued
    /\ ~WorkRan(i)
    /\ cancelTrue[i] = 0
    /\ i \notin cleared
    /\ i \notin dropped
CancelCall(i) == cancel(i) \/ cancelEvent(i)

\* C1: no id's action / execute body is entered more than once, whatever
\* schedule, cancel, update and clear calls are made, callbacks included.
AtMostOnce == \A i \in Ids : runs[i] <= 1

\* C2: an id for which cancel was called before its body started never has
\* its body entered afterwards.
CancelSafety == \A i \in cancelEarly : runs[i] = 0

\* update has just popped and skipped the entry of an id cancelled earlier
CancelSafetyWitness ==
    /\ log # <<>>
    /\ log[Len(log)].kind = "skip"
    /\ log[Len(log)].id \in cancelEarly
    /\ cancelTrue[log[Len(log)].id] = 1
    /\ log[Len(log)].id \notin cleared

\* C3: every cancel call, from the client or from a callback, returns true
\* exactly when its id is pending at the call.
CancelTrueIffPending ==
    [][\A i \in CancelArgs : CancelCall(i) => (cancelResult' = Pending(i))]_vars

\* C4: cancel(id) returns true at most once per id; for an id never returned
\* by schedule, already executed or cleared it returns false and leaves the
\* scheduler as it was.
CancelIdempotent ==
    [][\A i \in CancelArgs : CancelCall(i) =>
          /\ cancelResult' => cancelTrue[i] = 0
          /\ (i \notin Issued \/ WorkRan(i) \/ i \in cleared) =>
                /\ ~cancelResult'
                /\ UNCHANGED <<schedVars, timedVars>>]_vars

\* C5 as claimed: within one update call no execution follows an execution
\* of a higher tick.
TickOrder ==
    \A i, j \in DOMAIN RunLog : i < j => RunLog[i].tick <= RunLog[j].tick

\* C5 as amended: within one update call an item never runs after an item of
\* a higher tick, if its id had been returned by schedule before the
\* higher-tick item was dequeued.
TickOrderOfQueued ==
    \A i, j \in DOMAIN RunLog :
       (i < j /\ RunLog[j].tick < RunLog[i].tick) => RunLog[j].id >= RunLog[i].seen

\* the lower tick was scheduled after the higher one and still ran first
TickOrderWitness ==
    \E i, j \in DOMAIN RunLog :
       i < j /\ RunLog[i].tick < RunLog[j].tick /\ RunLog[j].id < RunLog[i].id

\* C6 as claimed: among the events of one tick run by one update call, none
\* runs after an event of lower priority.
PriorityOrder ==
    sut = "TimedEventScheduler" =>
       \A i, j \in DOMAIN RunLog :
          (i < j /\ RunLog[i].tick = RunLog[j].tick) =>
             RunLog[i].priority >= RunLog[j].priority

\* C6 as amended: among the events of one tick run by one update call, an
\* event never runs after an event of lower priority, if its id had been
\* returned by scheduleEvent before the lower-priority event was dequeued.
PriorityOrderOfQueued ==
    sut = "TimedEventScheduler" =>
       \A i, j \in DOMAIN RunLog :
          (/\ i < j
           /\ RunLog[i].tick = RunLog[j].tick
           /\ RunLog[i].priority < RunLog[j].priority) =>
             RunLog[j].id >= RunLog[i].seen

\* the higher priority was scheduled after the lower one and still ran first
PriorityOrderWitness ==
    /\ sut = "TimedEventScheduler"
    /\ \E i, j \in DOMAIN RunLog :
          /\ i < j
          /\ RunLog[i].tick = RunLog[j].tick
          /\ RunLog[i].priority > RunLog[j].priority
          /\ RunLog[j].id < RunLog[i].id

\* C7: an id dequeued active while its entity was invalid has no action run,
\* no onComplete run and no ActionCompletedEvent, and the step that drops it
\* leaves update in its loop.
ValidityGate ==
    /\ [](\A i \in dropped :
             runs[i] = 0 /\ onCompleteRuns[i] = 0 /\ dispatcher[i] = 0)
    /\ [][dropped' # dropped => pc' = "loop"]_vars

\* one update call dropped an item and went on to run another
ValidityGateWitness ==
    \E i, j \in DOMAIN log :
       i < j /\ log[i].kind = "drop" /\ log[j].kind = "run"

\* C8: when update(c) returns, every id that was never cancelled, cleared or
\* dropped has either run exactly once, or is still pending with a queue
\* entry of a tick above c.
ExactlyOnceWhenDue ==
    [][(pc = "loop" /\ pc' = "idle") =>
          \A i \in Issued :
             (cancelTrue[i] = 0 /\ i \notin cancelEarly /\ i \notin cleared
                /\ i \notin dropped) =>
                \/ runs[i] = 1
                \/ /\ runs[i] = 0
                   /\ i \in Active
                   /\ \E c \in Carried : c.id = i /\ c.tick > current_tick]_vars

\* C9: after clear() the queue and the active set are empty and update
\* dequeues nothing until something is scheduled; no id that had not run
\* before a clear() runs later, and cancel of such an id returns false.
ClearDiscards ==
    /\ [](/\ \A i \in cleared : runs[i] = 0
          /\ sinceClear =>
                /\ QueueEmpty
                /\ Active = {}
                /\ pc \in {"idle", "loop"}
                /\ log = <<>>)
    /\ [][\A i \in cleared : CancelCall(i) => ~cancelResult']_vars

\* an update call running on a scheduler that was cleared with items pending
ClearDiscardsWitness == sinceClear /\ cleared # {} /\ pc = "loop"

\* C10: the ids returned by schedule start at 1 and are strictly increasing
\* (so pairwise distinct), across clear() too.
IdAllocation ==
    \A k \in DOMAIN returned :
       /\ k = 1 => returned[k] = 1
       /\ \A j \in DOMAIN returned : j < k => returned[j] < returned[k]

\* the three states of an id, read off the scheduler and its history
StatePending(i) == i \in Active /\ runs[i] = 0
StateCancelled(i) == cancelTrue[i] > 0
StateExecuted(i) == runs[i] > 0
\* the step of update that starts the body of id i, which is due
ExecutesDue(i) ==
    /\ pc = "loop"
    /\ runs'[i] = runs[i] + 1
    /\ \E c \in Carried : c.id = i /\ c.tick <= current_tick

\* C11: every id returned by schedule is in exactly one of pending, cancelled
\* and executed (an id discarded by clear() or by the validity gate is in
\* none); an id leaves pending only by a cancel of that id or by update
\* starting its body when due, and cancelled and executed are final.
ItemStateMachine ==
    /\ [](\A i \in Issued :
             /\ ~(StatePending(i) /\ StateCancelled(i))
             /\ ~(StateCancelled(i) /\ StateExecuted(i))
             /\ \/ StatePending(i) \/ StateCancelled(i) \/ StateExecuted(i)
                \/ i \in cleared \cup dropped)
    /\ [][\A i \in Issued :
             /\ (StatePending(i) /\ ~StatePending(i)') =>
                   \/ CancelCall(i) /\ StateCancelled(i)'
                   \/ ExecutesDue(i)
                   \/ i \in cleared' \cup dropped'
             /\ StateCancelled(i) => StateCancelled(i)' /\ ~StateExecuted(i)'
             /\ StateExecuted(i) => StateExecuted(i)' /\ ~StateCancelled(i)']_vars

\* C12: whenever no callback is on the stack, the active set is the set of
\* pending ids and every active id is carried by an entry of the queue.
ActiveSetConsistent ==
    ~InCallback =>
       /\ Active = {i \in Issued : Pending(i)}
       /\ \A i \in Active : \E c \in Carried : c.id = i

\* C13: an id that a callback cancelled while its entry was still queued
\* never has its body entered, in the update in progress or in a later one;
\* the cancel leaves update's position and the queue as they were.
CallbackCancelSafety ==
    /\ [](\A i \in cancelInCallback : runs[i] = 0)
    /\ [][\A i \in CancelArgs :
             (InCallback /\ CancelCall(i)) =>
                UNCHANGED <<pc, current_tick, action, event, queue, eventQueue,
                            events>>]_vars

\* update ran a body and later popped and skipped an entry whose id a
\* callback had cancelled
CallbackCancelSafetyWitness ==
    \E i, j \in DOMAIN log :
       /\ i < j
       /\ log[i].kind = "run"
       /\ log[j].kind = "skip"
       /\ log[j].id \in cancelInCallback

\* the ids returned by schedule calls made during the update in progress
\* (the first dequeue of an update precedes its first callback)
IssuedInUpdate == IF log = <<>> THEN {} ELSE {i \in Issued : i >= log[1].seen}
\* a schedule call with tick t
ScheduleCall(t) ==
    \/ \E e \in Entities, oc \in BOOLEAN : schedule(t, e, oc)
    \/ \E p \in Priorities : scheduleEventNew(t, p)
    \/ \E o \in DOMAIN events : events[o].tick = t /\ scheduleEvent(o)

\* C14 as claimed: a schedule call made by a callback during update(c) has a
\* tick above c, and the item is not executed by the update in progress.
OnlyFutureInserts ==
    /\ [](\A d \in Range(RunLog) : d.id \notin IssuedInUpdate)
    /\ [][\A t \in Ticks : (InCallback /\ ScheduleCall(t)) => t > current_tick]_vars

\* C14 as amended: an item that a callback schedules during update(c) with a
\* tick above c is not executed by the update in progress; a callback may
\* schedule any tick, and update(c) returns only when no entry with a tick
\* at or below c is left in the queue.
FutureInsertsWait ==
    /\ [](\A d \in Range(RunLog) : d.id \in IssuedInUpdate => d.tick <= current_tick)
    /\ [][(pc = "loop" /\ pc' = "idle") =>
             \A c \in Carried : c.tick > current_tick]_vars

\* a callback scheduled an item above the current tick, and update went on
\* with its loop leaving the item queued and active
FutureInsertsWaitWitness ==
    /\ pc = "loop"
    /\ RunLog # <<>>
    /\ \E c \in Carried :
          c.id \in IssuedInUpdate /\ c.id \in Active /\ c.tick > current_tick

\* the order of the steps of one Scheduler iteration, id by id: the event
\* is not enqueued before action.action returned, onComplete is not entered
\* before the enqueue, and events are only ever added, one at a time
ProtocolOrder ==
    /\ [](sut = "Scheduler" =>
            \A i \in IdValues :
               /\ onCompleteRuns[i] <= dispatcher[i]
               /\ dispatcher[i] <= runs[i]
               /\ (pc = "action" /\ action.id = i) => dispatcher[i] = runs[i] - 1
               /\ (pc = "onComplete" /\ action.id = i) =>
                     /\ action.onComplete
                     /\ dispatcher[i] = runs[i]
                     /\ onCompleteRuns[i] = runs[i])
    /\ [][\A i \in IdValues :
             /\ dispatcher'[i] \in {dispatcher[i], dispatcher[i] + 1}
             /\ dispatcher'[i] # dispatcher[i] =>
                   pc = "action" /\ action.id = i]_vars

\* C15 as claimed: action, then one ActionCompletedEvent, then onComplete if
\* present; outside a running action the events enqueued for an id are as
\* many as the times its action was executed; nothing is taken off the sink.
ActionProtocol ==
    /\ ProtocolOrder
    /\ [](sut = "Scheduler" =>
            \A i \in IdValues :
               ~(pc = "action" /\ action.id = i) => dispatcher[i] = runs[i])

\* C15 as amended: the same, with the events enqueued for an id as many as
\* the executions of its action that returned: an action that throws
\* enqueues no event.
ActionProtocolOnReturn ==
    /\ ProtocolOrder
    /\ [](sut = "Scheduler" =>
            \A i \in IdValues :
               (i \notin failed /\ ~(pc = "action" /\ action.id = i)) =>
                  dispatcher[i] = runs[i])

\* onComplete is running with the action done and its one event enqueued
ActionProtocolWitness ==
    /\ sut = "Scheduler"
    /\ pc = "onComplete"
    /\ runs[action.id] = 1
    /\ dispatcher[action.id] = 1
    /\ onCompleteRuns[action.id] = 1

\* C16: schedule is possible at every call site for every tick and entity,
\* valid or not; it returns an id not returned before and the item is
\* pending with an entry of that tick in the queue; when update(c) returns,
\* every id that was not cancelled or cleared has run, unless its entity
\* was invalid when it was dequeued or its tick is above c.
ScheduleNeverValidates ==
    /\ []((sut = "Scheduler" /\ CallSite /\ Len(returned) < MaxIds) =>
             \A t \in Ticks, e \in Entities, oc \in BOOLEAN :
                ENABLED schedule(t, e, oc))
    /\ [][\A t \in Ticks, e \in Entities, oc \in BOOLEAN :
             schedule(t, e, oc) =>
                LET id == returned'[Len(returned')]
                IN /\ id \notin Issued
                   /\ id \in activeActions' /\ runs'[id] = 0
                   /\ BagIn([id |-> id, tick |-> t, entity |-> e,
                             onComplete |-> oc], queue')]_vars
    /\ [][(sut = "Scheduler" /\ pc = "loop" /\ pc' = "idle") =>
             \A i \in Issued :
                (cancelTrue[i] = 0 /\ i \notin cleared) =>
                   \/ runs[i] = 1
                   \/ i \in dropped
                   \/ \E c \in Carried : c.id = i /\ c.tick > current_tick]_vars

\* C17: cancel changes the active set and nothing else of the scheduler; an
\* entry whose id is not active leaves the queue only by clear() or by being
\* popped, unexecuted, by an update whose tick has reached the entry's.
LazyRemoval ==
    [][/\ \A i \in CancelArgs :
             CancelCall(i) =>
                /\ UNCHANGED <<queue, eventQueue, events, nextActionId,
                               nextEventId, worldVars, pc, current_tick>>
                /\ Active' = Active \ {i}
       /\ \A a \in BagToSet(queue) :
             (a.id \notin activeActions /\ CopiesIn(a, queue') < CopiesIn(a, queue)) =>
                \/ clear
                \/ /\ pc = "loop" /\ pc' = "loop"
                   /\ a.tick <= current_tick
                   /\ UNCHANGED <<runs, onCompleteRuns, dispatcher>>
       /\ \A o \in BagToSet(eventQueue) :
             (events[o].id \notin activeEvents
                /\ CopiesIn(o, eventQueue') < CopiesIn(o, eventQueue)) =>
                \/ clearEvents
                \/ /\ pc = "loop" /\ pc' = "loop"
                   /\ events[o].tick <= current_tick
                   /\ UNCHANGED runs]_vars

\* cancel has just returned true and the entry of the id is still queued
LazyRemovalWitness ==
    /\ cancelResult
    /\ \E c \in Carried : c.id \notin Active /\ cancelTrue[c.id] = 1

\* a step that update itself takes (not a call made by a callback)
UpdateStep ==
    \/ updateReturn \/ updateSkip \/ updateDrop \/ updateAction
    \/ actionReturn \/ onCompleteReturn
    \/ eventsReturn \/ eventsSkip \/ eventsExecute \/ executeReturn

\* C18: update(c) dequeues nothing whose tick is above c, and no step of
\* update changes the queue entry or the active-set membership of an item
\* whose tick is above c.
DrainBound ==
    /\ [](\A k \in DOMAIN log : log[k].tick <= current_tick)
    /\ [][UpdateStep =>
             /\ \A a \in BagToSet(queue) :
                   a.tick > current_tick =>
                      /\ CopiesIn(a, queue') = CopiesIn(a, queue)
                      /\ (a.id \in activeActions') = (a.id \in activeActions)
             /\ \A o \in BagToSet(eventQueue) :
                   events[o].tick > current_tick =>
                      /\ CopiesIn(o, eventQueue') = CopiesIn(o, eventQueue)
                      /\ events'[o] = events[o]
                      /\ (events[o].id \in activeEvents') =
                            (events[o].id \in activeEvents)]_vars

\* update has drained what was due and an active item of a higher tick is
\* still queued
DrainBoundWitness ==
    /\ pc = "loop"
    /\ RunLog # <<>>
    /\ \A c \in Carried : c.tick > current_tick
    /\ \E c \in Carried : c.id \in Active /\ c.id \notin IssuedInUpdate

\* C19: a throwing callback ends update at once, with the queue and the
\* other active ids as they were, so that what was still queued is there
\* for the next update; the body of an id that threw is not entered again.
FailurePropagation ==
    /\ [][throw =>
             /\ pc' = "idle"
             /\ UNCHANGED <<queue, eventQueue, events>>
             /\ \A c \in Carried : (c.id \in Active') = (c.id \in Active)]_vars
    /\ [](\A i \in failed : runs[i] <= 1)

\* entry d goes before entry e in key order: lower tick, or the same tick
\* and higher priority (Scheduler entries all have priority 0)
KeyBefore(d, e) ==
    \/ d.tick < e.tick
    \/ d.tick = e.tick /\ d.priority > e.priority

\* C20: among the items scheduled before an update call, the order in which
\* the update executes them is the order of their keys, ascending tick then
\* descending priority, whatever the order of the schedule calls was.
ScheduleOrderIndependence ==
    \A i, j \in DOMAIN RunLog :
       (/\ i < j
        /\ RunLog[i].id \notin IssuedInUpdate
        /\ RunLog[j].id \notin IssuedInUpdate) =>
          ~KeyBefore(RunLog[j], RunLog[i])

\* one update executed MaxIds items of pairwise different keys, scheduled
\* before it in exactly the opposite order
ScheduleOrderIndependenceWitness ==
    /\ Len(RunLog) = MaxIds
    /\ \A i, j \in DOMAIN RunLog :
          i < j => /\ RunLog[i].id > RunLog[j].id
                   /\ KeyBefore(RunLog[i], RunLog[j])

\* the ids of the FunctionEvents (scheduleFunction hands out no pointer, so
\* a FunctionEvent keeps the id of its one scheduleEvent call)
FunctionIds == {events[o].id : o \in {p \in DOMAIN events : IsFunction(p)}}
\* scheduleFunction makes an event of priority 0; its callable is not run
\* twice, and when update(c) returns every FunctionEvent that was not
\* cancelled or cleared has run once or is queued with a tick above c
FunctionRunsOnce ==
    /\ [][\A t \in Ticks : scheduleFunction(t) =>
             LET o == Len(events')
             IN /\ "func" \in DOMAIN events'[o]
                /\ events'[o] = [FunctionEvent(t) EXCEPT !.id = returned'[Len(returned')]]
                /\ events'[o].priority = 0
                /\ events'[o].id \in activeEvents'
                /\ BagIn(o, eventQueue')]_vars
    /\ [](\A f \in FunctionIds : runs[f] <= 1)
    /\ [][(pc = "loop" /\ pc' = "idle") =>
             \A f \in FunctionIds :
                (cancelTrue[f] = 0 /\ f \notin cleared) =>
                   \/ runs[f] = 1
                   \/ /\ runs[f] = 0
                      /\ \E c \in Carried : c.id = f /\ c.tick > current_tick]_vars

\* C21 as claimed: scheduleFunction schedules an event of priority 0 that
\* runs its callable exactly once when due; within one update call and one
\* tick it runs after every event of priority above 0 and before every event
\* of priority below 0.
FunctionPriorityZero ==
    /\ FunctionRunsOnce
    /\ [](\A i, j \in DOMAIN RunLog :
             (i < j /\ RunLog[i].tick = RunLog[j].tick) =>
                /\ RunLog[i].id \in FunctionIds => RunLog[j].priority <= 0
                /\ RunLog[j].id \in FunctionIds => RunLog[i].priority >= 0)

\* C21 as amended: the same, where the order within a tick is promised only
\* against events whose id had been returned by a schedule call before the
\* earlier of the two was dequeued.
FunctionPriorityZeroOfQueued ==
    /\ FunctionRunsOnce
    /\ [](\A i, j \in DOMAIN RunLog :
             (i < j /\ RunLog[i].tick = RunLog[j].tick /\ RunLog[j].id < RunLog[i].seen) =>
                /\ RunLog[i].id \in FunctionIds => RunLog[j].priority <= 0
                /\ RunLog[j].id \in FunctionIds => RunLog[i].priority >= 0)

\* one update ran, at one tick, an event of priority above 0, then a
\* FunctionEvent, then an event of priority below 0, all three scheduled
\* before the update in another order
FunctionPriorityZeroWitness ==
    /\ Len(RunLog) = 3
    /\ RunLog[1].tick = RunLog[3].tick
    /\ RunLog[1].priority > 0 /\ RunLog[1].id \notin FunctionIds
    /\ RunLog[2].id \in FunctionIds
    /\ RunLog[3].priority < 0
    /\ RunLog[2].id < RunLog[1].id
    /\ RunLog[3].id < RunLog[2].id
    /\ RunLog[1].seen > RunLog[1].id

\* a loop iteration of update: an entry is popped
UpdateIteration ==
    \/ updateSkip \/ updateDrop \/ updateAction
    \/ eventsSkip \/ eventsExecute

\* id i was scheduled with a tick at or below c: the tick of the entry that
\* carries it or, when no entry carries it, the tick of one of the event
\* objects, known to be at or below c when all of them are
ScheduledAtOrBelow(i, c) ==
    IF \E e \in Carried : e.id = i
       THEN \E e \in Carried : e.id = i /\ e.tick <= c
       ELSE /\ sut = "TimedEventScheduler"
            /\ \A o \in DOMAIN events : events[o].tick <= c

\* C22: when update(c) returns normally no queue entry has a tick at or below
\* c and no pending id was scheduled with a tick at or below c; an update
\* whose tick is below every tick in the queue pops nothing, and its return
\* leaves the scheduler, the registry and the event sink as they were.
DrainComplete ==
    /\ [][(pc = "loop" /\ pc' = "idle") =>
             /\ \A c \in Carried : c.tick > current_tick
             /\ \A i \in Issued :
                   Pending(i) => ~ScheduledAtOrBelow(i, current_tick)]_vars
    /\ []((pc = "loop" /\ \A c \in Carried : c.tick > current_tick) =>
             ~ENABLED UpdateIteration)
    /\ [][(updateReturn \/ eventsReturn) =>
             UNCHANGED <<schedVars, worldVars, timedVars>>]_vars

\* C23: an id that update dequeued active while its entity was invalid is
\* not in the active set afterwards and its action is never run, whatever
\* the registry says later; cancel of such an id returns false and changes
\* nothing of the scheduler.
DroppedConsumed ==
    /\ [](\A i \in dropped : i \notin activeActions /\ runs[i] = 0)
    /\ [][\A i \in CancelArgs :
             (i \in dropped /\ cancel(i)) =>
                ~cancelResult' /\ UNCHANGED schedVars]_vars

\* an item was dropped, every entity is valid again, and a later update with
\* the greatest tick has nothing left to run
DroppedConsumedWitness ==
    /\ dropped # {}
    /\ registry = Entities
    /\ pc = "loop"
    /\ current_tick = MaxTick
    /\ log = <<>>
    /\ queue = EmptyBag

\* the step on which update leaves action.action of the item it holds
LeavesAction == sut = "Scheduler" /\ pc = "action" /\ pc' # "action"
\* the ActionCompletedEvent of the item is enqueued and its onComplete, if it
\* has one, is entered
Completes ==
    /\ dispatcher'[action.id] = dispatcher[action.id] + 1
    /\ action.onComplete =>
          /\ pc' = "onComplete"
          /\ onCompleteRuns'[action.id] = onCompleteRuns[action.id] + 1

\* C24 as claimed: whenever the action of an item has run, its
\* ActionCompletedEvent is enqueued and its onComplete, if present, is
\* invoked, whether or not the entity is still valid; no step after the
\* dequeue asks the registry again.
ValidatedOnce == [][LeavesAction => Completes]_vars

\* C24 as amended: whenever the action of an item has returned, its
\* ActionCompletedEvent is enqueued and its onComplete, if present, is
\* invoked, whether or not the entity is still valid; an action that throws
\* ends update with neither.
ValidatedOnceOnReturn ==
    [][LeavesAction =>
          /\ ~throw => Completes
          /\ throw => UNCHANGED <<dispatcher, onCompleteRuns>>]_vars

\* onComplete is running for an item whose action destroyed its own entity
ValidatedOnceWitness ==
    /\ sut = "Scheduler"
    /\ pc = "onComplete"
    /\ action.entity \notin registry
    /\ budget = MaxCbOps
    /\ dispatcher[action.id] = 1
    /\ onCompleteRuns[action.id] = 1
    /\ log[Len(log)].kind = "run"
    /\ action.id \notin dropped

\* the entries in the queue with a tick at or below update's, counted with
\* their multiplicity
DueLeft ==
    IF sut = "Scheduler"
       THEN BagCardinality([a \in {b \in BagToSet(queue) : Due(b)} |-> queue[a]])
       ELSE BagCardinality([o \in {p \in BagToSet(eventQueue) : DueEvent(p)} |->
                               eventQueue[o]])
\* no callback of the update in progress has scheduled an item with a tick at
\* or below update's: none of the ids issued during the update is carried
\* by a due entry or by an entry already dequeued
NoDueInsert ==
    \A i \in IssuedInUpdate :
       /\ ~ \E c \in Carried : c.id = i /\ c.tick <= current_tick
       /\ ~ \E k \in DOMAIN log : log[k].id = i

\* while no callback has scheduled an item with a tick at or below update's,
\* the entries dequeued so far and the due entries left in the queue add up
\* to the due entries of the call; every iteration pops one entry, update
\* returns as soon as, and only when, no due entry is left, and it executes
\* no more items than it dequeues
DequeuesDueEntries ==
    /\ [][(pc # "idle" /\ pc' # "idle" /\ NoDueInsert') =>
             Len(log') + DueLeft' = Len(log) + DueLeft]_vars
    /\ [][UpdateIteration => Len(log') = Len(log) + 1 /\ DueLeft' = DueLeft - 1]_vars
    /\ [][(pc = "loop" /\ pc' = "idle") => DueLeft = 0]_vars
    /\ [](pc = "loop" =>
             IF DueLeft = 0
                THEN ENABLED (updateReturn \/ eventsReturn) /\ ~ENABLED UpdateIteration
                ELSE ENABLED UpdateIteration /\ ~ENABLED (updateReturn \/ eventsReturn))
    /\ [](Len(RunLog) <= Len(log))

\* update runs on the caller's thread: each of its steps is taken once it
\* can be, and the callback it has called returns or throws; the schedulers
\* are the ones of Spec with one schedule call fewer per behaviour
LiveIds == MaxIds - 1
LiveNext == Next /\ (returned' # returned => Len(returned) < LiveIds)
LiveSpec == Init /\ [][LiveNext]_vars /\ WF_vars(UpdateStep)

ConsistentAfterFailure ==
    /\ [][throw =>
             /\ \A i \in Active' : \E c \in Carried' : c.id = i
             /\ log[Len(log)].id \notin Active']_vars
    /\ [][\A i \in CancelArgs : (i \in failed /\ CancelCall(i)) => ~cancelResult']_vars

\* the ids carried by the entries of the event queue
QueuedEventIds == {events[o].id : o \in BagToSet(eventQueue)}

\* C27: a scheduleEvent call on an event object that is already queued
\* returns an id other than the one the object has and leaves the item of
\* every earlier call in the queue under its own id; no id is executed more
\* than once, and a cancel takes no id but its own out of the active set.
OwnItemPerCall ==
    /\ [][\A o \in DOMAIN events :
             (scheduleEvent(o) /\ BagIn(o, eventQueue)) =>
                /\ returned'[Len(returned')] # events[o].id
                /\ \A i \in activeEvents \cap QueuedEventIds : i \in QueuedEventIds']_vars
    /\ [](sut = "TimedEventScheduler" => \A i \in Ids : runs[i] <= 1)
    /\ [][\A i \in CancelArgs :
             cancelEvent(i) => activeEvents' = activeEvents \ {i}]_vars

\* C28: with the id counter w bits wide, schedule never returns 0 and never
\* returns an id that is in the active set at the call.
IdValidWhenBounded ==
    [][returned' # returned =>
          LET id == returned'[Len(returned')]
          IN id # 0 /\ id \notin Active]_vars

\* the tick of the k-th item (k = 1 is iteration i = 0) of the helper call
\* made, and the ticks that bound them
TickOfItem(k) == utilCall.startTick + ((k - 1) * utilCall.interval)
LastItemTick == TickOfItem(utilCall.count)
GreatestItemTick == IF utilCall.interval >= 0 THEN LastItemTick ELSE TickOfItem(1)
\* the ids the helper returned that no cancel call has taken
NotCancelled == {k \in DOMAIN utilCall.actionIds : cancelTrue[utilCall.actionIds[k]] = 0}

\* scheduleDamageOverTime and scheduleRecurringAction schedule count items,
\* none when count <= 0, the k-th on the given entity at its tick, and
\* return their ids in that order
SchedulesCountItems ==
    [][(/\ utilCall = NoCall
        /\ utilCall'.util \in {"scheduleDamageOverTime", "scheduleRecurringAction"}) =>
          LET ids == utilCall'.actionIds
              n == utilCall'.count
          IN /\ Len(ids) = (IF n > 0 THEN n ELSE 0)
             /\ returned' = returned \o ids
             /\ BagCardinality(queue') = BagCardinality(queue) + Len(ids)
             /\ \A k \in DOMAIN ids :
                   /\ ids[k] \in activeActions'
                   /\ \A l \in DOMAIN ids : k < l => ids[k] < ids[l]
                   /\ \E a \in BagToSet(queue') :
                         /\ a.id = ids[k]
                         /\ a.tick = utilCall'.startTick + ((k - 1) * utilCall'.interval)
                         /\ a.entity = utilCall'.entity]_vars

\* when an update with a tick at or above tick returns, with the target of
\* the scheduleDamageOverTime call valid and holding Health (in UtilsSpec
\* nothing makes either true again, so they were throughout), Health.current
\* is down by damage for every returned id that was not cancelled
DamageDoneBy(tick) ==
    (/\ pc = "loop" /\ pc' = "idle"
     /\ utilCall.util = "scheduleDamageOverTime"
     /\ utilCall.count > 0
     /\ current_tick >= tick
     /\ Valid(utilCall.entity)
     /\ health[utilCall.entity].has) =>
        health[utilCall.entity].current =
           HealthCurrent - (utilCall.damage * Cardinality(NotCancelled))

ChainRunsInListOrder ==
    utilCall.util = "scheduleActionChain" =>
       \A k, l \in DOMAIN utilCall.actionIds :
          (k < l /\ runs[utilCall.actionIds[l]] > 0) =>
             \/ runs[utilCall.actionIds[k]] > 0
             \/ cancelTrue[utilCall.actionIds[k]] > 0
             \/ utilCall.actionIds[k] \in dropped

=============================================================================
